---- MODULE Spec2Model ----
(***************************************************************************)
(* Model of the meal planner's generate -> evaluate -> revise loop         *)
(* (MealPlannerAgent.plan_meals), of the response extractor and of the     *)
(* weighted scoring of models.EvalScore.                                   *)
(*                                                                         *)
(* Numbers.  Criterion scores and overall scores are held as integers in   *)
(* hundredths of a point (85.0 is 8500); weights are held in hundredths    *)
(* (0.35 is 35), so a weighted total is an integer in units of 1/10000.    *)
(* round(total, 2) rounds that total to a multiple of 100.  Python rounds  *)
(* the binary double; a total lying exactly half way between two           *)
(* hundredths is decided by its representation error, so the evaluation    *)
(* documents of the model carry no score tuple with such a total.          *)
(*                                                                         *)
(* Text.  A completion response is a sequence of tokens: a literal token   *)
(* [ch |-> c] for a code fence, the tag json, a whitespace character, a    *)
(* brace or another character, and a token [body |-> d] for the content    *)
(* of a JSON object d between its outer braces.                            *)
(***************************************************************************)
EXTENDS Integers, Sequences, FiniteSets, TLC

VARIABLES session, probe

vars == <<session, probe>>

(***************************************************************************)
(* Bounds of the model.                                                    *)
(***************************************************************************)
NumPlans == 1
NumUserInputs == 2

(***************************************************************************)
(* Configuration of MealPlannerAgent.                                      *)
(***************************************************************************)
QUALITY_THRESHOLD == 8500
MAX_ITERATIONS == 3
GENERATION_MAX_TOKENS == 4096
EVALUATION_MAX_TOKENS == 2048

Sessions == {1, 2}
UserInputs == 1..NumUserInputs

None == [none |-> TRUE]
Unbound == [unbound |-> TRUE]
Str(text) == [text |-> text]

(***************************************************************************)
(* Tokens and texts.                                                       *)
(***************************************************************************)
Ch(c) == [ch |-> c]
Fence == Ch("fence")
JsonTag == Ch("json")
Ws == Ch(" ")
LBrace == Ch("{")
RBrace == Ch("}")
Other == Ch("x")
Body(d) == [body |-> d]

SubText(text, i, j) == [k \in 1..(j - i + 1) |-> text[i + k - 1]]

Min(S) == CHOOSE x \in S : \A y \in S : x <= y
Max(S) == CHOOSE x \in S : \A y \in S : y <= x

(***************************************************************************)
(* MealPlannerAgent._extract_json.                                         *)
(* First pattern: fence, optional json tag, whitespace, a lazy brace span  *)
(* that ends at the first closing brace followed by whitespace and a       *)
(* fence.  Second pattern: a greedy brace span over the whole text.        *)
(***************************************************************************)
RECURSIVE SkipWs(_, _)
SkipWs(text, j) ==
    IF j <= Len(text) /\ text[j] = Ws THEN SkipWs(text, j + 1) ELSE j

FenceFollows(text, k) ==
    LET m == SkipWs(text, k) IN m <= Len(text) /\ text[m] = Fence

FencedOpen(text, i) ==
    LET j0 == IF i + 1 <= Len(text) /\ text[i + 1] = JsonTag THEN i + 2 ELSE i + 1
    IN  SkipWs(text, j0)

FencedCloses(text, j) ==
    {k \in (j + 1)..Len(text) : text[k] = RBrace /\ FenceFollows(text, k + 1)}

FencedMatchAt(text, i) ==
    /\ text[i] = Fence
    /\ LET j == FencedOpen(text, i)
       IN  /\ j <= Len(text)
           /\ text[j] = LBrace
           /\ FencedCloses(text, j) # {}

RECURSIVE FencedMatchesGreedy(_, _)
FencedMatchesGreedy(text, from) ==
    LET starts == {i \in from..Len(text) : FencedMatchAt(text, i)}
    IN  IF starts = {} THEN <<>>
        ELSE LET i == Min(starts)
                 j == FencedOpen(text, i)
                 k == Max(FencedCloses(text, j))
                 e == SkipWs(text, k + 1)
             IN  <<SubText(text, j, k)>> \o FencedMatchesGreedy(text, e + 1)

RECURSIVE FencedMatches(_, _)
FencedMatches(text, from) ==
    LET starts == {i \in from..Len(text) : FencedMatchAt(text, i)}
    IN  IF starts = {} THEN <<>>
        ELSE LET i == Min(starts)
                 j == FencedOpen(text, i)
                 k == Min(FencedCloses(text, j))
                 e == SkipWs(text, k + 1)
             IN  <<SubText(text, j, k)>> \o FencedMatches(text, e + 1)

RECURSIVE BraceMatches(_, _)
BraceMatches(text, from) ==
    LET closes == {k \in from..Len(text) : text[k] = RBrace}
        opens == {i \in from..Len(text) :
                     text[i] = LBrace /\ \E k \in closes : k > i}
    IN  IF opens = {} THEN <<>>
        ELSE LET i == Min(opens)
                 k == Max(closes)
             IN  <<SubText(text, i, k)>> \o BraceMatches(text, k + 1)

Width(tok) == IF tok = Fence THEN 3 ELSE IF tok = JsonTag THEN 4 ELSE 1

RECURSIVE CharLen(_)
CharLen(text) ==
    IF text = <<>> THEN 0 ELSE Width(Head(text)) + CharLen(Tail(text))

Longest(matches) ==
    matches[Min({i \in 1..Len(matches) :
                    \A j \in 1..Len(matches) :
                        CharLen(matches[j]) <= CharLen(matches[i])})]

_extract_json_or_empty(text) ==
    LET fenced == FencedMatches(text, 1)
    IN  IF fenced # <<>> THEN fenced[1]
        ELSE LET raw == BraceMatches(text, 1)
             IN  IF raw # <<>> THEN Longest(raw) ELSE <<>>

_extract_json(text) ==
    LET fenced == FencedMatches(text, 1)
    IN  IF fenced # <<>> THEN fenced[1]
        ELSE LET raw == BraceMatches(text, 1)
             IN  IF raw # <<>> THEN Longest(raw) ELSE text

(***************************************************************************)
(* Outcome of a call: a returned value or a raised exception.              *)
(***************************************************************************)
Return(v) == [ok |-> TRUE, value |-> v]
Raise(kind, detail) == [ok |-> FALSE, error |-> [kind |-> kind, detail |-> detail]]

(***************************************************************************)
(* json.loads on an extracted text: the text is a JSON object exactly when *)
(* it is one body between an opening and a closing brace.                  *)
(***************************************************************************)
json_loads(text) ==
    IF /\ Len(text) = 3
       /\ text[1] = LBrace
       /\ text[3] = RBrace
       /\ "body" \in DOMAIN text[2]
    THEN Return(text[2].body)
    ELSE Raise("JSONDecodeError", "document")

(***************************************************************************)
(* models.EvalScore.calculate_weighted_score.                              *)
(***************************************************************************)
CriterionKeys ==
    <<"inventory_optimization", "nutritional_variety", "practicality",
      "cost_efficiency", "preference_alignment">>

weights ==
    [inventory_optimization |-> 35, nutritional_variety |-> 20,
     practicality |-> 20, cost_efficiency |-> 15, preference_alignment |-> 10]

Round2(total) ==
    LET q == total \div 100
        r == total % 100
    IN  IF r > 50 \/ (r = 50 /\ q % 2 = 1) THEN q + 1 ELSE q

RECURSIVE WeightedTotal(_, _)
WeightedTotal(scores, n) ==
    IF n = 0 THEN 0
    ELSE WeightedTotal(scores, n - 1)
             + scores[CriterionKeys[n]].score * weights[CriterionKeys[n]]

calculate_weighted_score_unweighted(scores) ==
    LET sum == scores.inventory_optimization.score + scores.nutritional_variety.score
                   + scores.practicality.score + scores.cost_efficiency.score
                   + scores.preference_alignment.score
    IN  Round2(sum * 20)

calculate_weighted_score(scores) ==
    Round2(WeightedTotal(scores, Len(CriterionKeys)))

OverallScoreReported(data, scores) ==
    IF "overall_score" \in DOMAIN data
    THEN data.overall_score
    ELSE calculate_weighted_score(scores)

OverallScore(data, scores) == calculate_weighted_score(scores)

(***************************************************************************)
(* MealPlannerAgent._parse_evaluation.  The criteria are read in the order *)
(* of the dictionary literal; the first missing key raises KeyError.       *)
(***************************************************************************)
MissingKey(data, c) ==
    IF c \notin DOMAIN data THEN c
    ELSE IF "score" \notin DOMAIN data[c] THEN "score"
    ELSE IF "feedback" \notin DOMAIN data[c] THEN "feedback"
    ELSE "none"

CriterionScoreClamped(entry) ==
    [score |-> IF entry.score < 0 THEN 0
               ELSE IF entry.score > 10000 THEN 10000 ELSE entry.score,
     feedback |-> entry.feedback,
     suggestions |-> IF "suggestions" \in DOMAIN entry
                     THEN entry.suggestions ELSE <<>>]

CriterionScore(entry) ==
    [score |-> entry.score,
     feedback |-> entry.feedback,
     suggestions |-> IF "suggestions" \in DOMAIN entry
                     THEN entry.suggestions ELSE <<>>]

EvalScore(scores, overall, notes) ==
    [inventory_optimization |-> scores.inventory_optimization,
     nutritional_variety |-> scores.nutritional_variety,
     practicality |-> scores.practicality,
     cost_efficiency |-> scores.cost_efficiency,
     preference_alignment |-> scores.preference_alignment,
     overall_score |-> overall,
     improvement_notes |-> notes]

_parse_evaluation(eval_json) ==
    LET loaded == json_loads(eval_json)
    IN  IF ~loaded.ok THEN loaded
        ELSE
          LET data == loaded.value
              failing == {n \in 1..Len(CriterionKeys) :
                             MissingKey(data, CriterionKeys[n]) # "none"}
          IN  IF failing # {}
              THEN Raise("KeyError", MissingKey(data, CriterionKeys[Min(failing)]))
              ELSE
                LET scores == [c \in {CriterionKeys[n] : n \in 1..Len(CriterionKeys)}
                                  |-> CriterionScore(data[c])]
                    overall == OverallScore(data, scores)
                    notes == IF "improvement_notes" \in DOMAIN data
                             THEN data.improvement_notes ELSE <<>>
                IN  Return(EvalScore(scores, overall, notes))

(***************************************************************************)
(* Prompts.  A prompt is held as the record of the values its template     *)
(* interpolates.  Scores are written with the format .1f, in tenths.       *)
(***************************************************************************)
Format1f(v) ==
    LET q == v \div 10
        r == v % 10
    IN  IF r > 5 \/ (r = 5 /\ q % 2 = 1) THEN q + 1 ELSE q

_build_initial_prompt(user_input) ==
    [mode |-> "initial", user_input |-> user_input]

PromptCriterion(criterion) ==
    [score |-> Format1f(criterion.score),
     feedback |-> criterion.feedback,
     suggestions |-> criterion.suggestions]

_build_improvement_prompt(user_input, previous_plan, previous_eval) ==
    [mode |-> "revision",
     user_input |-> user_input,
     previous_plan |-> previous_plan,
     inventory_optimization |-> PromptCriterion(previous_eval.inventory_optimization),
     nutritional_variety |-> PromptCriterion(previous_eval.nutritional_variety),
     practicality |-> PromptCriterion(previous_eval.practicality),
     cost_efficiency |-> PromptCriterion(previous_eval.cost_efficiency),
     preference_alignment |-> PromptCriterion(previous_eval.preference_alignment),
     overall_score |-> Format1f(previous_eval.overall_score),
     target |-> QUALITY_THRESHOLD,
     improvement_notes |-> previous_eval.improvement_notes]

EvaluationPrompt(user_input, meal_plan_json) ==
    [mode |-> "evaluation", user_input |-> user_input, meal_plan |-> meal_plan_json]

GenerationPromptTruthy(user_input, previous_plan, previous_eval) ==
    IF previous_plan = None \/ previous_plan.text = <<>>
    THEN Return(_build_initial_prompt(user_input))
    ELSE Return(_build_improvement_prompt(user_input, previous_plan.text,
                                          previous_eval))

GenerationPrompt(user_input, previous_plan, previous_eval) ==
    IF previous_plan = None
    THEN Return(_build_initial_prompt(user_input))
    ELSE IF previous_eval = None
         THEN Raise("AttributeError", "inventory_optimization")
         ELSE Return(_build_improvement_prompt(user_input, previous_plan.text,
                                               previous_eval))

Request(kind, max_tokens, prompt) ==
    [kind |-> kind, max_tokens |-> max_tokens, prompt |-> prompt]

(***************************************************************************)
(* Responses of the Completion Service.                                    *)
(***************************************************************************)
FencedJson(d) ==
    <<Other, Fence, JsonTag, Ws, LBrace, Body(d), RBrace, Ws, Fence, Other>>
RawJson(d) == <<Other, LBrace, Body(d), RBrace, Other>>
NoJson == <<Other, Ws, Other>>
EmptyText == <<>>

PlanDoc(p) == [daily_meals |-> p]

GenerationTexts ==
    {FencedJson(PlanDoc(p)) : p \in 1..NumPlans}
        \cup {RawJson(PlanDoc(1)), NoJson, EmptyText}

Crit(s, tag, c) ==
    [score |-> s,
     feedback |-> <<"feedback", tag, c>>,
     suggestions |-> << <<"suggestion", tag, c>> >>]

EvalDoc(tag, t) ==
    [inventory_optimization |-> Crit(t[1], tag, "inventory"),
     nutritional_variety |-> Crit(t[2], tag, "nutrition"),
     practicality |-> Crit(t[3], tag, "practicality"),
     cost_efficiency |-> Crit(t[4], tag, "cost"),
     preference_alignment |-> Crit(t[5], tag, "preference"),
     improvement_notes |-> <<"notes", tag>>]

Uniform(v) == <<v, v, v, v, v>>

ScoreTuples ==
    {<<"e40", Uniform(4000)>>, <<"e50", Uniform(5000)>>,
     <<"e60", Uniform(6000)>>, <<"e72", Uniform(7200)>>, <<"e85", Uniform(8500)>>,
     <<"e90", Uniform(9000)>>,
     <<"mix855", <<10000, 9000, 8000, 7000, 6000>> >>,
     <<"r8499", <<8498, 8500, 8500, 8500, 8500>> >>,
     <<"r8500", <<8499, 8500, 8500, 8500, 8500>> >>,
     <<"cold85", <<10000, 10000, 10000, 0, 10000>> >>,
     <<"cold90", <<10000, 10000, 10000, 10000, 0>> >>}

Without(f, k) == [x \in DOMAIN f \ {k} |-> f[x]]
With(f, k, v) == (k :> v) @@ f

CriterionSet == {CriterionKeys[n] : n \in 1..Len(CriterionKeys)}

E60 == EvalDoc("e60", Uniform(6000))
E90 == EvalDoc("e90", Uniform(9000))

CompleteDocs == {EvalDoc(e[1], e[2]) : e \in ScoreTuples}

ReportedTotals == {1000, 9900}

TotalDocs ==
    {With(d, "overall_score", t) : d \in {E60, E90}, t \in ReportedTotals}

MissingCriterionDocs == {Without(d, c) : d \in {E60, E90}, c \in CriterionSet}

MissingFieldDocs ==
    {[d EXCEPT ![c] = Without(@, f)] :
        d \in {E60, E90}, c \in CriterionSet, f \in {"score", "feedback"}}

MissingSuggestionsDocs ==
    {[E90 EXCEPT ![c] = Without(@, "suggestions")] : c \in CriterionSet}
        \cup {[E60 EXCEPT !["practicality"] = Without(@, "suggestions")]}

MissingNotesDocs == {Without(E90, "improvement_notes")}

EvaluationDocs ==
    CompleteDocs \cup TotalDocs \cup MissingCriterionDocs \cup MissingFieldDocs
        \cup MissingSuggestionsDocs \cup MissingNotesDocs

EvaluationTexts ==
    {FencedJson(d) : d \in EvaluationDocs}
        \cup {RawJson(d) : d \in {E60, E90}}
        \cup {FencedJson(PlanDoc(1)), NoJson, EmptyText}

(***************************************************************************)
(* State of one plan_meals invocation: its position, its locals, the       *)
(* requests it has sent to the Completion Service (calls), the plans the   *)
(* generation step has returned (generated), the document the last         *)
(* evaluation response was loaded into (data, dropped when the next        *)
(* iteration starts) and its outcome.                                      *)
(***************************************************************************)
IdleSession ==
    [pc |-> "idle",
     user_input |-> 0,
     iteration |-> 0,
     evaluations |-> <<>>,
     current_plan |-> None,
     prev_eval |-> Unbound,
     current_eval |-> Unbound,
     calls |-> <<>>,
     generated |-> <<>>,
     data |-> None,
     result |-> None,
     error |-> None]

FinishBest(s) ==
    LET best == CHOOSE k \in 1..Len(s.evaluations) :
                    \A j \in 1..Len(s.evaluations) :
                        s.evaluations[j].overall_score <= s.evaluations[k].overall_score
    IN  [s EXCEPT !.pc = "done",
                  !.result = [plan |-> Str(s.generated[best]),
                              evaluations |-> s.evaluations]]

Finish(s) ==
    [s EXCEPT !.pc = "done",
              !.result = [plan |-> s.current_plan, evaluations |-> s.evaluations]]

Abort(s, error) == [s EXCEPT !.pc = "error", !.error = error]

LoopContinuesOffByOne(iteration) == iteration < MAX_ITERATIONS

LoopContinues(iteration) == iteration + 1 < MAX_ITERATIONS

MeetsThresholdStrict(current_eval) == current_eval.overall_score > QUALITY_THRESHOLD

MeetsThresholdInventory(current_eval) ==
    current_eval.inventory_optimization.score >= QUALITY_THRESHOLD

MeetsThreshold(current_eval) == current_eval.overall_score >= QUALITY_THRESHOLD

AppendEvaluationReplace(evaluations, current_eval) == <<current_eval>>

AppendEvaluation(evaluations, current_eval) == Append(evaluations, current_eval)

Enter(s, user_input) ==
    LET s1 == [s EXCEPT !.user_input = user_input,
                        !.evaluations = <<>>,
                        !.current_plan = None]
    IN  IF 0 < MAX_ITERATIONS
        THEN [s1 EXCEPT !.iteration = 0, !.pc = "generate"]
        ELSE Finish(s1)

StartGeneration(s) ==
    IF s.iteration # 0 /\ s.prev_eval = Unbound
    THEN Abort(s, [kind |-> "UnboundLocalError", detail |-> "prev_eval"])
    ELSE
      LET previous_plan == IF s.iteration = 0 THEN None ELSE s.current_plan
          previous_eval == IF s.iteration = 0 THEN None ELSE s.prev_eval
          prompt == GenerationPrompt(s.user_input, previous_plan, previous_eval)
      IN  IF ~prompt.ok THEN Abort(s, prompt.error)
          ELSE [s EXCEPT !.calls = Append(@, Request("generation",
                                                     GENERATION_MAX_TOKENS,
                                                     prompt.value)),
                         !.data = None,
                         !.pc = "gen_wait"]

FinishGenerationRetry(s, response_text) ==
    LET plan == _extract_json(response_text)
    IN  IF json_loads(plan).ok
        THEN [s EXCEPT !.current_plan = Str(plan),
                       !.generated = Append(@, plan),
                       !.pc = "evaluate"]
        ELSE [s EXCEPT !.pc = "generate"]

FinishGeneration(s, response_text) ==
    LET plan == _extract_json(response_text)
    IN  [s EXCEPT !.current_plan = Str(plan),
                  !.generated = Append(@, plan),
                  !.pc = "evaluate"]

StartEvaluationPrevious(s) ==
    LET plan == IF Len(s.generated) > 1
                THEN s.generated[Len(s.generated) - 1]
                ELSE s.current_plan.text
    IN  [s EXCEPT !.calls = Append(@, Request("evaluation",
                                              EVALUATION_MAX_TOKENS,
                                              EvaluationPrompt(s.user_input, plan))),
                  !.pc = "eval_wait"]

StartEvaluationShared(s) ==
    LET shared == IF session[1].current_plan # None
                  THEN session[1].current_plan
                  ELSE s.current_plan
    IN  [s EXCEPT !.calls = Append(@, Request("evaluation",
                                              EVALUATION_MAX_TOKENS,
                                              EvaluationPrompt(s.user_input,
                                                               shared.text))),
                  !.pc = "eval_wait"]

StartEvaluation(s) ==
    [s EXCEPT !.calls = Append(@, Request("evaluation",
                                          EVALUATION_MAX_TOKENS,
                                          EvaluationPrompt(s.user_input,
                                                           s.current_plan.text))),
              !.pc = "eval_wait"]

EvaluationRaisedRetry(s, error) == [s EXCEPT !.pc = "evaluate"]

EvaluationRaised(s, error) == Abort(s, error)

Loaded(eval_json) ==
    LET loaded == json_loads(eval_json)
    IN  IF loaded.ok THEN loaded.value ELSE None

FinishEvaluation(s, response_text) ==
    LET eval_json == _extract_json(response_text)
        parsed == _parse_evaluation(eval_json)
        s0 == [s EXCEPT !.data = Loaded(eval_json)]
    IN  IF ~parsed.ok THEN EvaluationRaised(s0, parsed.error)
        ELSE
          LET current_eval == parsed.value
              s1 == [s0 EXCEPT !.current_eval = current_eval,
                               !.evaluations = AppendEvaluation(@, current_eval)]
              s2 == IF s.iteration < MAX_ITERATIONS - 1
                    THEN [s1 EXCEPT !.prev_eval = current_eval]
                    ELSE s1
          IN  IF MeetsThreshold(current_eval)
              THEN Finish(s1)
              ELSE IF LoopContinues(s.iteration)
                   THEN [s2 EXCEPT !.iteration = @ + 1, !.pc = "generate"]
                   ELSE Finish(s2)

ServiceFailureRetry(s) ==
    [s EXCEPT !.pc = IF s.pc = "gen_wait" THEN "generate" ELSE "evaluate"]

ServiceFailure(s) == Abort(s, [kind |-> "ServiceError", detail |-> s.pc])

(***************************************************************************)
(* Actions of session i.                                                   *)
(***************************************************************************)
plan_meals(i) ==
    /\ session[i].pc = "idle"
    /\ \E user_input \in UserInputs :
          session' = [session EXCEPT ![i] = Enter(@, user_input)]
    /\ UNCHANGED probe

generate_meal_plan(i) ==
    /\ session[i].pc = "generate"
    /\ session' = [session EXCEPT ![i] = StartGeneration(@)]
    /\ UNCHANGED probe

GenerationReturns(i) ==
    /\ session[i].pc = "gen_wait"
    /\ \E response_text \in GenerationTexts :
          session' = [session EXCEPT ![i] = FinishGeneration(@, response_text)]
    /\ UNCHANGED probe

GenerationFails(i) ==
    /\ session[i].pc = "gen_wait"
    /\ session' = [session EXCEPT ![i] = ServiceFailure(@)]
    /\ UNCHANGED probe

evaluate_meal_plan(i) ==
    /\ session[i].pc = "evaluate"
    /\ session' = [session EXCEPT ![i] = StartEvaluation(@)]
    /\ UNCHANGED probe

EvaluationReturns(i) ==
    /\ session[i].pc = "eval_wait"
    /\ \E response_text \in EvaluationTexts :
          session' = [session EXCEPT ![i] = FinishEvaluation(@, response_text)]
    /\ UNCHANGED probe

EvaluationFails(i) ==
    /\ session[i].pc = "eval_wait"
    /\ session' = [session EXCEPT ![i] = ServiceFailure(@)]
    /\ UNCHANGED probe

(***************************************************************************)
(* One caller: a single plan_meals invocation on a fresh agent.            *)
(***************************************************************************)
NoProbe == [called |-> FALSE]

Init ==
    /\ session = [i \in Sessions |-> IdleSession]
    /\ probe = NoProbe

PlanMeals == plan_meals(1)
GenerateMealPlan == generate_meal_plan(1)
GenerationReturn == GenerationReturns(1)
GenerationFailure == GenerationFails(1)
EvaluateMealPlan == evaluate_meal_plan(1)
EvaluationReturn == EvaluationReturns(1)
EvaluationFailure == EvaluationFails(1)

Next ==
    \/ PlanMeals
    \/ GenerateMealPlan
    \/ GenerationReturn
    \/ GenerationFailure
    \/ EvaluateMealPlan
    \/ EvaluationReturn
    \/ EvaluationFailure

Spec == Init /\ [][Next]_vars

S1 == session[1]

(***************************************************************************)
(* Properties of a plan_meals session.                                     *)
(***************************************************************************)
Overall(k) == S1.evaluations[k].overall_score

BelowThreshold == \A k \in 1..Len(S1.evaluations) : Overall(k) < QUALITY_THRESHOLD

IsPrefix(a, b) == Len(a) <= Len(b) /\ \A k \in 1..Len(a) : a[k] = b[k]

Running == S1.pc \in {"generate", "gen_wait", "evaluate", "eval_wait"}

\* C1: the loop stops at the first iteration whose overall score is at or
\* above the quality threshold: that entry is the last of the history, the
\* session has returned, and no call beyond the two of that iteration
\* exists, also when iterations remain.
C1_StopsAtThreshold ==
    \A k \in 1..Len(S1.evaluations) :
        Overall(k) >= QUALITY_THRESHOLD
            => /\ k = Len(S1.evaluations)
               /\ S1.pc = "done"
               /\ S1.iteration = k - 1
               /\ Len(S1.calls) = 2 * k
               /\ S1.result.evaluations = S1.evaluations

C1_Witness ==
    /\ S1.pc = "done"
    /\ Len(S1.evaluations) = 2
    /\ Len(S1.evaluations) < MAX_ITERATIONS
    /\ Overall(1) = 6000
    /\ Overall(2) = QUALITY_THRESHOLD

\* C2: when no call fails and no overall score reaches the threshold, the
\* session runs MAX_ITERATIONS iterations, never more, and then returns the
\* plan and the evaluation of the last iteration without an error.
C2_ExhaustsIterations ==
    (S1.error = None /\ BelowThreshold)
        => /\ Len(S1.evaluations) <= MAX_ITERATIONS
           /\ S1.iteration < MAX_ITERATIONS
           /\ (S1.pc = "done") <=> (Len(S1.evaluations) = MAX_ITERATIONS)
           /\ S1.pc = "done"
                => /\ Len(S1.calls) = 2 * MAX_ITERATIONS
                   /\ S1.result.plan = Str(S1.generated[MAX_ITERATIONS])
                   /\ S1.result.evaluations = S1.evaluations
                   /\ S1.evaluations[MAX_ITERATIONS] = S1.current_eval

C2_Witness ==
    /\ S1.pc = "done"
    /\ S1.error = None
    /\ Len(S1.result.evaluations) = MAX_ITERATIONS
    /\ Overall(1) = 4000
    /\ Overall(2) = 4000
    /\ Overall(3) = 5000

\* C3: the evaluation history only grows, by one entry at the end for each
\* evaluation that returns, earlier entries never change; a running session
\* has one entry per completed iteration and a returned history has one
\* entry per iteration run, between 1 and MAX_ITERATIONS of them.
C3_AppendOnly ==
    /\ [][/\ IsPrefix(S1.evaluations, S1.evaluations')
          /\ Len(S1.evaluations') <= Len(S1.evaluations) + 1
          /\ S1.evaluations' # S1.evaluations
                => /\ S1.pc = "eval_wait"
                   /\ S1.evaluations' = Append(S1.evaluations, S1.current_eval')]_vars
    /\ [](Running => Len(S1.evaluations) = S1.iteration)
    /\ [](S1.pc = "done"
            => /\ S1.result.evaluations = S1.evaluations
               /\ Len(S1.result.evaluations) = S1.iteration + 1
               /\ Len(S1.result.evaluations) = Len(S1.generated)
               /\ Len(S1.result.evaluations) \in 1..MAX_ITERATIONS)

C3_Witness ==
    /\ S1.pc = "done"
    /\ Len(S1.result.evaluations) = 3
    /\ Overall(1) # Overall(2)
    /\ Overall(2) # Overall(3)

\* C4: the requests to the Completion Service alternate generation,
\* evaluation, generation, ..., one of each per iteration, a request is sent
\* only when every earlier one has returned, and there are at most
\* 2 * MAX_ITERATIONS of them.
CallKind(n) == IF n % 2 = 1 THEN "generation" ELSE "evaluation"

Returned == Len(S1.generated) + Len(S1.evaluations)

C4_CallsAlternate ==
    /\ \A n \in 1..Len(S1.calls) : S1.calls[n].kind = CallKind(n)
    /\ Len(S1.calls) <= 2 * MAX_ITERATIONS
    /\ S1.pc = "generate"
          => Len(S1.calls) = 2 * S1.iteration /\ Returned = Len(S1.calls)
    /\ S1.pc = "gen_wait"
          => Len(S1.calls) = 2 * S1.iteration + 1 /\ Returned = Len(S1.calls) - 1
    /\ S1.pc = "evaluate"
          => Len(S1.calls) = 2 * S1.iteration + 1 /\ Returned = Len(S1.calls)
    /\ S1.pc = "eval_wait"
          => Len(S1.calls) = 2 * S1.iteration + 2 /\ Returned = Len(S1.calls) - 1
    /\ S1.pc = "done"
          => Len(S1.calls) = 2 * (S1.iteration + 1) /\ Returned = Len(S1.calls)

C4_Witness ==
    /\ S1.pc = "done"
    /\ Len(S1.calls) = 2 * MAX_ITERATIONS
    /\ S1.calls[5].kind = "generation"
    /\ S1.calls[6].kind = "evaluation"

\* C5: the generation request of iteration 0 is the initial prompt with the
\* constraints only; the generation request of an iteration i > 0 is the
\* revision prompt with the constraints, the plan generated in iteration
\* i - 1 and the evaluation appended in iteration i - 1 (its notes and the
\* score, to one decimal, the feedback and the suggestions of the five
\* criteria), whatever the earlier plan is.
C5_RevisionContext ==
    \A n \in 1..Len(S1.calls) :
        S1.calls[n].kind = "generation"
            => LET i == (n - 1) \div 2
                   p == S1.calls[n].prompt
               IN  IF i = 0
                   THEN p = [mode |-> "initial", user_input |-> S1.user_input]
                   ELSE /\ p.mode = "revision"
                        /\ p.user_input = S1.user_input
                        /\ p.previous_plan = S1.generated[i]
                        /\ p.improvement_notes = S1.evaluations[i].improvement_notes
                        /\ \A c \in CriterionSet :
                              /\ p[c].feedback = S1.evaluations[i][c].feedback
                              /\ p[c].suggestions = S1.evaluations[i][c].suggestions
                              /\ 10 * p[c].score - S1.evaluations[i][c].score \in -5..5

C5_Witness ==
    /\ Len(S1.calls) >= 5
    /\ S1.calls[3].prompt.mode = "revision"
    /\ S1.calls[3].prompt.previous_plan = EmptyText
    /\ S1.calls[5].prompt.mode = "revision"
    /\ S1.calls[5].prompt.previous_plan = NoJson
    /\ S1.calls[5].prompt.practicality.suggestions = <<>>

\* C6: the evaluation request of every iteration carries the session's
\* constraints and the plan the generation step of that same iteration
\* returned, so the k-th history entry answers the request for the k-th
\* generated plan.
C6_EvaluatesCurrentPlan ==
    /\ \A n \in 1..Len(S1.calls) :
          S1.calls[n].kind = "evaluation"
              => S1.calls[n].prompt = [mode |-> "evaluation",
                                       user_input |-> S1.user_input,
                                       meal_plan |-> S1.generated[n \div 2]]
    /\ Len(S1.evaluations) <= Len(S1.generated)
    /\ 2 * Len(S1.evaluations) <= Len(S1.calls)
    /\ S1.pc = "eval_wait" => S1.current_plan = Str(S1.generated[S1.iteration + 1])

C6_Witness ==
    /\ Len(S1.evaluations) = 2
    /\ S1.generated[1] # S1.generated[2]
    /\ S1.calls[2].prompt.meal_plan = S1.generated[1]
    /\ S1.calls[4].prompt.meal_plan = S1.generated[2]

\* C7: a returned plan is the plan generated in the last iteration run, the
\* one whose evaluation is the last history entry, also when an earlier
\* iteration scored higher.
C7_ReturnsLastPlan ==
    S1.pc = "done"
        => /\ S1.result.plan = Str(S1.generated[Len(S1.generated)])
           /\ Len(S1.generated) = Len(S1.result.evaluations)
           /\ S1.calls[Len(S1.calls)].kind = "evaluation"
           /\ S1.calls[Len(S1.calls)].prompt.meal_plan = S1.result.plan.text

C7_Witness ==
    /\ S1.pc = "done"
    /\ Len(S1.evaluations) = 3
    /\ Overall(1) > Overall(3)
    /\ S1.generated[1] # S1.generated[3]
    /\ S1.result.plan = Str(S1.generated[3])

(***************************************************************************)
(* Direct calls of _parse_evaluation on evaluation documents whose five    *)
(* scores range over ProbeScores.                                          *)
(***************************************************************************)
ProbeScores == {0, 4204, 8496, 8500, 10000}

ProbeDocs ==
    {EvalDoc("probe", <<a, b, c, d, e>>) :
        a \in ProbeScores, b \in ProbeScores, c \in ProbeScores,
        d \in ProbeScores, e \in ProbeScores}

InitScore ==
    /\ session = [i \in Sessions |-> IdleSession]
    /\ \E d \in ProbeDocs :
          probe = [called |-> FALSE, eval_json |-> <<LBrace, Body(d), RBrace>>]

ParseEvaluation ==
    /\ ~probe.called
    /\ probe' = [called |-> TRUE,
                 eval_json |-> probe.eval_json,
                 outcome |-> _parse_evaluation(probe.eval_json)]
    /\ UNCHANGED session

NextScore == ParseEvaluation

SpecScore == InitScore /\ [][NextScore]_vars

\* C8: the five weights are 0.35, 0.20, 0.20, 0.15, 0.10 and sum to 1; the
\* overall score of every evaluation result, one parsed directly or one in
\* the history, is the weighted sum of its own five criterion scores rounded
\* to the nearest hundredth.
OwnTotal(e) ==
    35 * e.inventory_optimization.score + 20 * e.nutritional_variety.score
        + 20 * e.practicality.score + 15 * e.cost_efficiency.score
        + 10 * e.preference_alignment.score

RoundedFrom(overall, total) == 100 * overall - total \in -49..49

C8_WeightedScore ==
    /\ weights = [inventory_optimization |-> 35, nutritional_variety |-> 20,
                  practicality |-> 20, cost_efficiency |-> 15,
                  preference_alignment |-> 10]
    /\ 35 + 20 + 20 + 15 + 10 = 100
    /\ probe.called
          => /\ probe.outcome.ok
             /\ \A c \in CriterionSet :
                   probe.outcome.value[c].score = probe.eval_json[2].body[c].score
             /\ RoundedFrom(probe.outcome.value.overall_score,
                            OwnTotal(probe.outcome.value))
    /\ \A k \in 1..Len(S1.evaluations) :
          RoundedFrom(Overall(k), OwnTotal(S1.evaluations[k]))

C8_Witness ==
    /\ probe.called
    /\ probe.outcome.ok
    /\ probe.outcome.value.inventory_optimization.score = 8496
    /\ probe.outcome.value.nutritional_variety.score = 10000
    /\ probe.outcome.value.practicality.score = 4204
    /\ probe.outcome.value.cost_efficiency.score = 0
    /\ probe.outcome.value.preference_alignment.score = 8500
    /\ OwnTotal(probe.outcome.value) = 666440
    /\ probe.outcome.value.overall_score = 6664

(***************************************************************************)
(* Two sessions run in lockstep on the same constraints and the same       *)
(* generation responses; their evaluation responses are the same or differ *)
(* only in a total the service reports under overall_score.                *)
(***************************************************************************)
WithoutTotal(d) == Without(d, "overall_score")

ResponsePairs ==
    {<<text, text>> : text \in EvaluationTexts}
        \cup {<<FencedJson(pair[1]), FencedJson(pair[2])>> :
                pair \in {q \in EvaluationDocs \X EvaluationDocs :
                             WithoutTotal(q[1]) = WithoutTotal(q[2])}}

BothAt(pc) == \A i \in Sessions : session[i].pc = pc

PairPlanMeals ==
    /\ BothAt("idle")
    /\ \E user_input \in UserInputs :
          session' = [i \in Sessions |-> Enter(session[i], user_input)]
    /\ UNCHANGED probe

PairGenerate ==
    /\ BothAt("generate")
    /\ session' = [i \in Sessions |-> StartGeneration(session[i])]
    /\ UNCHANGED probe

PairGenerationReturn ==
    /\ BothAt("gen_wait")
    /\ \E response_text \in GenerationTexts :
          session' = [i \in Sessions |-> FinishGeneration(session[i], response_text)]
    /\ UNCHANGED probe

PairGenerationFailure ==
    /\ BothAt("gen_wait")
    /\ session' = [i \in Sessions |-> ServiceFailure(session[i])]
    /\ UNCHANGED probe

PairEvaluate ==
    /\ BothAt("evaluate")
    /\ session' = [i \in Sessions |-> StartEvaluation(session[i])]
    /\ UNCHANGED probe

PairEvaluationReturn ==
    /\ BothAt("eval_wait")
    /\ \E pair \in ResponsePairs :
          session' = [i \in Sessions |-> FinishEvaluation(session[i], pair[i])]
    /\ UNCHANGED probe

PairEvaluationFailure ==
    /\ BothAt("eval_wait")
    /\ session' = [i \in Sessions |-> ServiceFailure(session[i])]
    /\ UNCHANGED probe

NextPair ==
    \/ PairPlanMeals
    \/ PairGenerate
    \/ PairGenerationReturn
    \/ PairGenerationFailure
    \/ PairEvaluate
    \/ PairEvaluationReturn
    \/ PairEvaluationFailure

SpecPair == Init /\ [][NextPair]_vars

\* C9: two sessions whose evaluation responses differ only in a total the
\* service reports build the same evaluation results, with the same overall
\* scores, and stop, continue or fail at the same points with the same
\* result.
C9_ReportedTotalIgnored ==
    /\ session[1].evaluations = session[2].evaluations
    /\ session[1].pc = session[2].pc
    /\ session[1].iteration = session[2].iteration
    /\ session[1].calls = session[2].calls
    /\ session[1].result = session[2].result
    /\ session[1].error = session[2].error

Reports(d, total) ==
    /\ d # None
    /\ "overall_score" \in DOMAIN d
    /\ d.overall_score = total

C9_Witness ==
    /\ BothAt("done")
    /\ Len(session[1].evaluations) = 2
    /\ Reports(session[1].data, 1000)
    /\ Reports(session[2].data, 9900)
    /\ session[1].evaluations[1].overall_score = 6000
    /\ session[1].evaluations[2].overall_score = 9000
    /\ session[2].evaluations[2].overall_score = 9000

\* C10: an evaluation document that lacks one of the five criterion keys, or
\* the score or the feedback of a criterion, makes _parse_evaluation raise;
\* the session then ends in that error with no result, no new history entry
\* and no further request.  A criterion that lacks only its suggestions is
\* accepted and gets an empty list of suggestions.
Defective(d) ==
    \E c \in CriterionSet :
        \/ c \notin DOMAIN d
        \/ "score" \notin DOMAIN d[c]
        \/ "feedback" \notin DOMAIN d[c]

C10_MissingFieldAborts ==
    S1.data # None
        => IF Defective(S1.data)
           THEN /\ S1.pc = "error"
                /\ S1.error.kind = "KeyError"
                /\ S1.result = None
                /\ Len(S1.evaluations) = S1.iteration
                /\ Len(S1.calls) = 2 * S1.iteration + 2
           ELSE /\ S1.pc # "error"
                /\ Len(S1.evaluations) >= 1
                /\ \A c \in CriterionSet :
                      S1.evaluations[Len(S1.evaluations)][c].suggestions
                          = IF "suggestions" \in DOMAIN S1.data[c]
                            THEN S1.data[c].suggestions
                            ELSE <<>>

C10_Witness ==
    /\ S1.pc = "error"
    /\ S1.error = [kind |-> "KeyError", detail |-> "practicality"]
    /\ S1.data # None
    /\ "practicality" \notin DOMAIN S1.data
    /\ Len(S1.evaluations) = 1
    /\ Len(S1.calls) = 4
    /\ S1.result = None

\* C11: a generation response that does not hold a JSON object ends the
\* session in an error at that generation call: the unparseable text is
\* never kept as a plan of a session that goes on, and no evaluation request
\* is sent for it.
C11_GenerationParseFailsFast ==
    \A k \in 1..Len(S1.generated) :
        ~json_loads(S1.generated[k]).ok
            => /\ S1.pc = "error"
               /\ Len(S1.calls) = 2 * k - 1

\* C12: a failed call of the Completion Service is not retried and no
\* further request follows it: the step that ends a pending call without a
\* new plan or history entry ends the session in the error, with no result,
\* also after completed iterations; an ended session never changes again; a session
\* has a result exactly when it returned, and then the result is the plan
\* and the history of all its iterations, every request answered, and no
\* error.
C12_ServiceFailureAborts ==
    /\ [](/\ (S1.pc = "error") <=> (S1.error # None)
          /\ (S1.pc = "done") <=> (S1.result # None)
          /\ S1.error # None => S1.result = None
          /\ S1.result # None
                => /\ S1.result.plan = S1.current_plan
                   /\ S1.result.evaluations = S1.evaluations
                   /\ Len(S1.evaluations) = Len(S1.generated)
                   /\ Returned = Len(S1.calls)
          /\ (S1.error # None /\ S1.error.kind = "ServiceError")
                => /\ Returned = Len(S1.calls) - 1
                   /\ Len(S1.evaluations) = S1.iteration
                   /\ Len(S1.calls)
                         = 2 * S1.iteration
                              + (IF S1.error.detail = "gen_wait" THEN 1 ELSE 2))
    /\ [][/\ S1.pc \in {"error", "done"} => S1' = S1
          /\ (S1.pc \in {"gen_wait", "eval_wait"} /\ S1' # S1
                /\ Len(S1.generated') + Len(S1.evaluations') = Returned)
                => /\ S1.pc' = "error"
                   /\ S1.calls' = S1.calls
                   /\ S1.result' = None]_vars

C12_Witness ==
    /\ S1.pc = "error"
    /\ S1.error = [kind |-> "ServiceError", detail |-> "eval_wait"]
    /\ Len(S1.evaluations) = 2
    /\ Len(S1.generated) = 3
    /\ Len(S1.calls) = 6
    /\ S1.result = None

(***************************************************************************)
(* Direct calls of _extract_json on every text of at most MaxLen tokens.   *)
(***************************************************************************)
MaxLen == 6

Alphabet == {Fence, JsonTag, Ws, LBrace, RBrace, Other}

Texts == UNION {[1..n -> Alphabet] : n \in 0..MaxLen}

ExtractJson ==
    /\ ~probe.called
    /\ \E text \in Texts :
          probe' = [called |-> TRUE,
                    text |-> text,
                    outcome |-> _extract_json(text)]
    /\ UNCHANGED session

NextExtract == ExtractJson

SpecExtract == Init /\ [][NextExtract]_vars

Positions(text, tok) == {i \in 1..Len(text) : text[i] = tok}

IsSubText(part, text) ==
    \/ part = <<>>
    \/ \E i \in 1..(Len(text) - Len(part) + 1) :
          part = SubText(text, i, i + Len(part) - 1)

\* The separate brace spans of a text: each runs from an opening brace to
\* the next closing brace, and the next span starts after it.
RECURSIVE SingleSpans(_, _)
SingleSpans(text, from) ==
    LET opens == {i \in from..Len(text) :
                     text[i] = LBrace /\ \E k \in (i + 1)..Len(text) : text[k] = RBrace}
    IN  IF opens = {} THEN {}
        ELSE LET i == Min(opens)
                 k == Min({n \in (i + 1)..Len(text) : text[n] = RBrace})
             IN  {SubText(text, i, k)} \cup SingleSpans(text, k + 1)

\* C13: for a text without a fence that holds two or more separate brace
\* spans, _extract_json returns one of the longest single spans, not a text
\* that covers several of them.
C13_LongestSingleSpan ==
    (probe.called /\ Positions(probe.text, Fence) = {})
        => LET spans == SingleSpans(probe.text, 1)
           IN  Cardinality(spans) >= 2
                 => /\ probe.outcome \in spans
                    /\ \A span \in spans : CharLen(span) <= CharLen(probe.outcome)

\* The fenced code blocks of a text: the first fence opens a block, the next
\* one closes it, the third opens the second block, and so on.
Blocks(text) ==
    {blk \in Positions(text, Fence) \X Positions(text, Fence) :
        /\ blk[1] < blk[2]
        /\ Cardinality({f \in Positions(text, Fence) : f < blk[1]}) % 2 = 0
        /\ ~\E f \in Positions(text, Fence) : blk[1] < f /\ f < blk[2]}

\* A block tagged json or untagged: no other word follows its opening fence.
JsonOrUntagged(text, blk) == text[blk[1] + 1] # Other

BlockOpens(text, blk) ==
    {i \in (blk[1] + 1)..(blk[2] - 1) :
        text[i] = LBrace /\ \E k \in (i + 1)..(blk[2] - 1) : text[k] = RBrace}

BlockObject(text, blk) ==
    SubText(text, Min(BlockOpens(text, blk)),
            Max({k \in (blk[1] + 1)..(blk[2] - 1) : text[k] = RBrace}))

\* C14 as stated: when some fenced block, tagged json or untagged, contains
\* a brace-delimited object, _extract_json returns the object of the first
\* such block, from the first opening brace to the last closing brace inside
\* that block.
C14_FirstFencedBlock ==
    probe.called
        => LET holding == {blk \in Blocks(probe.text) :
                              /\ JsonOrUntagged(probe.text, blk)
                              /\ BlockOpens(probe.text, blk) # {}}
           IN  holding # {}
                 => LET first == CHOOSE blk \in holding :
                                     \A other \in holding : blk[1] <= other[1]
                    IN  probe.outcome = BlockObject(probe.text, first)

\* A fence at i is followed by the object from j to k: between the fence and
\* the opening brace at j stand only an optional json tag and whitespace,
\* and between the closing brace at k and the next fence only whitespace.
OnlyWs(text, a, b) == \A n \in a..b : text[n] = Ws

OpensAt(text, i, j) ==
    /\ i < j
    /\ text[i] = Fence
    /\ text[j] = LBrace
    /\ \/ OnlyWs(text, i + 1, j - 1)
       \/ i + 1 < j /\ text[i + 1] = JsonTag /\ OnlyWs(text, i + 2, j - 1)

ClosesAt(text, k) ==
    /\ text[k] = RBrace
    /\ \E e \in (k + 1)..Len(text) : text[e] = Fence /\ OnlyWs(text, k + 1, e - 1)

Opens(text) ==
    {m \in Positions(text, Fence) \X Positions(text, LBrace) :
        OpensAt(text, m[1], m[2])}

Closes(text) == {k \in Positions(text, RBrace) : ClosesAt(text, k)}

Framed(text) ==
    {m \in {<<o[1], o[2], k>> : o \in Opens(text), k \in Closes(text)} :
        m[2] < m[3]}

\* C14, amended: when some fence is followed, after an optional json tag and
\* whitespace only, by an opening brace, and a later closing brace is
\* followed, after whitespace only, by a fence, _extract_json returns the
\* text from the opening brace after the first such fence to the first
\* closing brace after it that is so followed by a fence, whatever brace
\* spans stand outside; a block with other text around its object is not
\* found this way.
C14_FirstFencedMatch ==
    probe.called
        => LET framed == Framed(probe.text)
           IN  framed # {}
                 => LET first == CHOOSE m \in framed :
                                     \A other \in framed :
                                         \/ m[1] < other[1]
                                         \/ m[1] = other[1] /\ m[3] <= other[3]
                    IN  probe.outcome = SubText(probe.text, first[2], first[3])

C14_Witness ==
    /\ probe.called
    /\ probe.text = <<LBrace, Fence, LBrace, RBrace, Fence, RBrace>>
    /\ probe.outcome = <<LBrace, RBrace>>

\* C15: _extract_json returns, for every text, a part of that text; for a
\* text without an opening brace that a closing brace follows it returns the
\* text unchanged, and that result does not load as a JSON object.
C15_ReturnsTextUnchanged ==
    probe.called
        => /\ IsSubText(probe.outcome, probe.text)
           /\ (~\E i \in Positions(probe.text, LBrace) :
                  \E k \in Positions(probe.text, RBrace) : i < k)
                 => /\ probe.outcome = probe.text
                    /\ ~json_loads(probe.outcome).ok

C15_Witness ==
    /\ probe.called
    /\ probe.text = <<Fence, JsonTag, RBrace, LBrace, Ws, Fence>>
    /\ probe.outcome = probe.text

\* C18: in every state of a session, and in every returned history, every
\* entry but the last has an overall score below the quality threshold; the
\* evaluation handed to a revision request (prev_eval, the entry of the
\* iteration before) is below the threshold.
C18_OnlyLastReachesThreshold ==
    /\ \A k \in 1..(Len(S1.evaluations) - 1) : Overall(k) < QUALITY_THRESHOLD
    /\ S1.result # None
          => \A k \in 1..(Len(S1.result.evaluations) - 1) :
                 S1.result.evaluations[k].overall_score < QUALITY_THRESHOLD
    /\ (S1.pc \in {"generate", "gen_wait"} /\ S1.iteration > 0)
          => /\ S1.prev_eval = S1.evaluations[S1.iteration]
             /\ S1.prev_eval.overall_score < QUALITY_THRESHOLD
    /\ \A n \in 1..Len(S1.calls) :
          S1.calls[n].prompt.mode = "revision"
              => /\ Overall((n - 1) \div 2) < QUALITY_THRESHOLD
                 /\ S1.calls[n].prompt.improvement_notes
                        = S1.evaluations[(n - 1) \div 2].improvement_notes
                 /\ S1.calls[n].prompt.overall_score
                        = Format1f(Overall((n - 1) \div 2))

C18_Witness ==
    /\ S1.pc = "done"
    /\ Len(S1.result.evaluations) = 3
    /\ Overall(1) = 8499
    /\ Overall(2) = 7200
    /\ Overall(3) = 8550
    /\ S1.calls[3].prompt.mode = "revision"
    /\ S1.calls[3].prompt.overall_score = 850

(***************************************************************************)
(* One caller whose evaluation responses carry criterion scores outside    *)
(* the range 0 to 100.                                                     *)
(***************************************************************************)
RangeTuples ==
    {<<"hot", Uniform(15000)>>,
     <<"cold", Uniform(-2000)>>,
     <<"hot1", <<15000, 6000, 6000, 6000, 6000>> >>,
     <<"cold1", <<10000, 10000, 10000, 10000, -10000>> >>}

RangeDocs == {EvalDoc(e[1], e[2]) : e \in RangeTuples} \cup {E60}

RangeTexts == {FencedJson(d) : d \in RangeDocs}

RangeEvaluationReturn ==
    /\ session[1].pc = "eval_wait"
    /\ \E response_text \in RangeTexts :
          session' = [session EXCEPT ![1] = FinishEvaluation(@, response_text)]
    /\ UNCHANGED probe

NextRange ==
    \/ PlanMeals
    \/ GenerateMealPlan
    \/ GenerationReturn
    \/ GenerationFailure
    \/ EvaluateMealPlan
    \/ RangeEvaluationReturn
    \/ EvaluationFailure

SpecRange == Init /\ [][NextRange]_vars

\* C17: no range check on criterion scores: an evaluation document with all
\* its fields is accepted whatever its scores are, each score is stored as
\* given, the overall score is the weighted sum of the scores as given,
\* rounded, and the loop stops or goes on by comparing that overall score
\* with the quality threshold.
C17_NoRangeCheck ==
    S1.data # None
        => /\ S1.pc \in {"generate", "done"}
           /\ Len(S1.evaluations) >= 1
           /\ LET e == S1.evaluations[Len(S1.evaluations)]
              IN  /\ \A c \in CriterionSet : e[c].score = S1.data[c].score
                  /\ RoundedFrom(e.overall_score, OwnTotal(S1.data))
                  /\ e.overall_score >= QUALITY_THRESHOLD
                        => S1.pc = "done" /\ S1.iteration = Len(S1.evaluations) - 1
                  /\ (e.overall_score < QUALITY_THRESHOLD
                        /\ Len(S1.evaluations) < MAX_ITERATIONS)
                        => S1.pc = "generate" /\ S1.iteration = Len(S1.evaluations)

C17_Witness ==
    /\ S1.pc = "done"
    /\ Len(S1.evaluations) = 3
    /\ S1.evaluations[1].inventory_optimization.score = -2000
    /\ Overall(1) = -2000
    /\ S1.evaluations[2].preference_alignment.score = -10000
    /\ Overall(2) = 8000
    /\ S1.evaluations[3].inventory_optimization.score = 15000
    /\ Overall(3) = 9150
    /\ S1.data = EvalDoc("hot1", <<15000, 6000, 6000, 6000, 6000>>)

(***************************************************************************)
(* Two concurrent callers of plan_meals on one agent.  The steps of the    *)
(* two sessions interleave freely.  The Completion Service answers each    *)
(* request of session i with a text of session i's own (OwnPlans,          *)
(* OwnScoreTuples) or fails it; probe[i] records, in order, what session i *)
(* received.                                                               *)
(***************************************************************************)
OwnPlans(i) == {10 * i + 1, 10 * i + 2}

OwnGenerationTexts(i) == {FencedJson(PlanDoc(p)) : p \in OwnPlans(i)}

OwnScoreTuples(i) ==
    IF i = 1
    THEN {<<"first60", Uniform(6000)>>, <<"first90", Uniform(9000)>>}
    ELSE {<<"second72", Uniform(7200)>>, <<"second85", Uniform(8500)>>}

OwnEvaluationDocs(i) == {EvalDoc(e[1], e[2]) : e \in OwnScoreTuples(i)}

OwnEvaluationTexts(i) == {FencedJson(d) : d \in OwnEvaluationDocs(i)}

Received(i, response) == [probe EXCEPT ![i] = Append(@, response)]

Response(text) == [text |-> text]
Failure == [failed |-> TRUE]

InitConcurrent ==
    /\ session = [i \in Sessions |-> IdleSession]
    /\ probe = [i \in Sessions |-> <<>>]

ConcurrentGenerationReturns(i) ==
    /\ session[i].pc = "gen_wait"
    /\ \E response_text \in OwnGenerationTexts(i) :
          /\ session' = [session EXCEPT ![i] = FinishGeneration(@, response_text)]
          /\ probe' = Received(i, Response(response_text))

ConcurrentGenerationFails(i) ==
    /\ session[i].pc = "gen_wait"
    /\ session' = [session EXCEPT ![i] = ServiceFailure(@)]
    /\ probe' = Received(i, Failure)

ConcurrentEvaluationReturns(i) ==
    /\ session[i].pc = "eval_wait"
    /\ \E response_text \in OwnEvaluationTexts(i) :
          /\ session' = [session EXCEPT ![i] = FinishEvaluation(@, response_text)]
          /\ probe' = Received(i, Response(response_text))

ConcurrentEvaluationFails(i) ==
    /\ session[i].pc = "eval_wait"
    /\ session' = [session EXCEPT ![i] = ServiceFailure(@)]
    /\ probe' = Received(i, Failure)

NextConcurrent ==
    \/ \E i \in Sessions : plan_meals(i)
    \/ \E i \in Sessions : generate_meal_plan(i)
    \/ \E i \in Sessions : ConcurrentGenerationReturns(i)
    \/ \E i \in Sessions : ConcurrentGenerationFails(i)
    \/ \E i \in Sessions : evaluate_meal_plan(i)
    \/ \E i \in Sessions : ConcurrentEvaluationReturns(i)
    \/ \E i \in Sessions : ConcurrentEvaluationFails(i)

SpecConcurrent == InitConcurrent /\ [][NextConcurrent]_vars

(***************************************************************************)
(* plan_meals run alone on the responses a session received: each response *)
(* answers the request the sequential program sends next.                  *)
(***************************************************************************)
Issue(s) ==
    IF s.pc = "generate" THEN StartGeneration(s)
    ELSE IF s.pc = "evaluate" THEN StartEvaluation(s)
    ELSE s

Respond(s, response) ==
    IF response = Failure THEN ServiceFailure(s)
    ELSE IF s.pc = "gen_wait" THEN FinishGeneration(s, response.text)
    ELSE FinishEvaluation(s, response.text)

RECURSIVE RunAlone(_, _, _)
RunAlone(user_input, responses, n) ==
    IF n = 0 THEN Enter(IdleSession, user_input)
    ELSE Respond(Issue(RunAlone(user_input, responses, n - 1)), responses[n])

OwnPlanTexts(i) == {<<LBrace, Body(PlanDoc(p)), RBrace>> : p \in OwnPlans(i)}

OwnEvaluation(i, e) ==
    \E d \in OwnEvaluationDocs(i) :
        /\ e.improvement_notes = d.improvement_notes
        /\ \A c \in CriterionSet :
              /\ e[c].score = d[c].score
              /\ e[c].feedback = d[c].feedback
              /\ e[c].suggestions = d[c].suggestions

\* C16: under every interleaving of the steps of two sessions, the current
\* plan, the previous evaluation, the history and the requests of each
\* session hold only what that session's own calls returned, and the state
\* and the result of each session are those of plan_meals run alone on the
\* responses that session received.
C16_SessionsIsolated ==
    \A i \in Sessions :
        LET s == session[i]
            alone == RunAlone(s.user_input, probe[i], Len(probe[i]))
        IN  /\ \A k \in 1..Len(s.generated) : s.generated[k] \in OwnPlanTexts(i)
            /\ s.current_plan # None => s.current_plan.text \in OwnPlanTexts(i)
            /\ \A k \in 1..Len(s.evaluations) : OwnEvaluation(i, s.evaluations[k])
            /\ s.prev_eval # Unbound => OwnEvaluation(i, s.prev_eval)
            /\ s.current_eval # Unbound => OwnEvaluation(i, s.current_eval)
            /\ \A n \in 1..Len(s.calls) :
                  /\ s.calls[n].prompt.user_input = s.user_input
                  /\ s.calls[n].prompt.mode = "evaluation"
                        => s.calls[n].prompt.meal_plan \in OwnPlanTexts(i)
                  /\ s.calls[n].prompt.mode = "revision"
                        => /\ s.calls[n].prompt.previous_plan \in OwnPlanTexts(i)
                           /\ \E d \in OwnEvaluationDocs(i) :
                                 s.calls[n].prompt.improvement_notes
                                     = d.improvement_notes
            /\ s.pc = "idle" => s = IdleSession /\ probe[i] = <<>>
            /\ s.pc # "idle" => s \in {alone, Issue(alone)}
            /\ s.pc \in {"done", "error"}
                  => /\ s = alone
                     /\ s.result = alone.result
                     /\ s.error = alone.error

C16_Witness ==
    /\ session[1].pc = "eval_wait"
    /\ session[1].iteration = 2
    /\ Len(session[1].evaluations) = 2
    /\ session[2].pc = "gen_wait"
    /\ session[2].iteration = 1
    /\ session[2].prev_eval # Unbound
    /\ session[1].user_input = session[2].user_input
    /\ Len(probe[1]) = 5
    /\ Len(probe[2]) = 2

====
